---- MODULE Spec2Model ----
(***************************************************************************)
(* Scan job lifecycle and delivery pipeline of Docker-Image-Scanner:       *)
(*   - the submission gateway  (src/lambda/submit-scan/lambda_function.py) *)
(*   - the scan worker         (src/scanner/scanner.py)                    *)
(* together with the stores they share: the scan_jobs and vulnerabilities  *)
(* tables, the S3 bucket and the SQS queue.                                *)
(*                                                                         *)
(* Strings the code inspects character by character (the scan target) are  *)
(* sequences of one-character strings.  A timestamp column is abstracted   *)
(* to the number of times NOW() has been assigned to it (0 is NULL).       *)
(* created_at is written once at insert and never read; it is left out.    *)
(***************************************************************************)
EXTENDS Bags, Integers, Sequences, FiniteSets, TLC

VARIABLES
    scan_jobs,        \* table scan_jobs: id -> row
    vulnerabilities,  \* table vulnerabilities: sequence of rows
    bucket,           \* S3 bucket: scan id (key scans/{id}/results.json) -> body
    queue,            \* SQS queue: sequence of messages, index = MessageId
    gw,               \* the gateway invocations in progress, a bag
    submitted,        \* number of gateway invocations started
    responses,        \* what the gateway returned, a bag, one copy per invocation
    wk,               \* the workers: position in main/process_message and locals
    faults            \* number of calls to the database, S3 or SQS that failed

vars == <<scan_jobs, vulnerabilities, bucket, queue, gw, submitted, responses, wk, faults>>

---------------------------------------------------------------------------
(* Bounds *)

\* gateway invocations in one behaviour of the gateway alone
MaxSubmits == 2
\* gateway invocations in one behaviour of the whole pipeline
MaxJobs == 1
\* size of the space uuid4 draws from
NumJobIds == 3
\* deliveries (receives of any message, redeliveries included) in one behaviour
MaxDeliveries == 2
\* calls to the database, S3 or SQS that fail in one behaviour
MaxFaults == 1
\* longest target string a request carries
MaxTargetLen == 1
\* messages put on the queue by a producer other than the gateway
MaxForeign == 1

Workers == {"w1", "w2"}

\* how a call to the database, S3 or SQS may end (TRUE: it goes through)
MayFail == IF faults < MaxFaults THEN {TRUE, FALSE} ELSE {TRUE}
Charge(ok) == faults' = IF ok THEN faults ELSE faults + 1
JobIds == 1 .. NumJobIds
NULL == "NULL"

---------------------------------------------------------------------------
(* Requests *)

Chars == {"n", ":", "@"}

RECURSIVE StringsUpTo(_)
StringsUpTo(n) ==
    IF n = 0 THEN {<<>>}
    ELSE LET shorter == StringsUpTo(n - 1)
         IN  shorter \cup {Append(s, c) : s \in shorter, c \in Chars}

Targets == StringsUpTo(MaxTargetLen)
Types == {"docker-image", "web-url", "ftp"}

\* JSON values of a target that are no strings: null, and a list of
\* one-character strings. Their first element is no character.
JsonNull == <<"null">>
JsonList(items) == <<"list">> \o items

IsString(v) == v = <<>> \/ v[1] \notin {"null", "list"}

\* A request body that is a JSON object is a function from the keys it has.
\* The others: a body json.loads raises on (no JSON text, or no text at
\* all), the JSON value null (a number fares the same), and a JSON string
\* in which the words type and target do not both occur.
NotJson == [json |-> "invalid"]
JsonNullBody == [json |-> "null"]
JsonStringBody == [json |-> "string"]

IsObject(body) == "json" \notin DOMAIN body

\* the targets of web-url requests: the handler passes them on unread
UrlTargets == {<<"n">>, <<":">>, JsonNull}

\* The requests the gateway is invoked with. The handler reads the target
\* only of a docker-image request that has type and target; a request
\* without type or of a type that is no scan type carries one target.
Requests ==
    {[type |-> "docker-image", target |-> s] : s \in Targets \cup {JsonNull}}
    \cup {[type |-> "docker-image", target |-> JsonList(<<"n">>)]}
    \cup {[type |-> "web-url", target |-> s] : s \in UrlTargets}
    \cup {[type |-> "ftp", target |-> <<"n">>]}
    \cup {[type |-> t] : t \in Types}
    \cup {[target |-> <<"n">>]}
    \cup {<<>>, NotJson, JsonNullBody, JsonStringBody}

\* Python's c in s: a substring test on a string, an element test on a list
Contains(s, c) == \E i \in 1 .. Len(s) : s[i] = c

LatestSuffix == <<":", "l", "a", "t", "e", "s", "t">>

\* Python's str of a list of strings, as f"{target}" formats it
RECURSIVE ReprItems(_)
ReprItems(items) ==
    IF items = <<>> THEN <<>>
    ELSE <<"'", Head(items), "'">>
         \o (IF Tail(items) = <<>> THEN <<>> ELSE <<",", " ">>)
         \o ReprItems(Tail(items))

Str(v) == IF IsString(v) THEN v ELSE <<"[">> \o ReprItems(Tail(v)) \o <<"]">>

\* the rewrite with the test for a digest left out
NormalizeTarget_IgnoresDigest(scan_type, target) ==
    IF scan_type = "docker-image" /\ ~Contains(target, ":")
    THEN Str(target) \o LatestSuffix
    ELSE target

\* lambda_function.py 100-103, for a target that is a string or a list
NormalizeTarget(scan_type, target) ==
    IF scan_type = "docker-image"
    THEN IF ~Contains(target, ":") /\ ~Contains(target, "@")
         THEN Str(target) \o LatestSuffix
         ELSE target
    ELSE target

\* lambda_function.py 69-103: the status the handler returns before it draws
\* the scan id, 0 when it goes on. 500 is the catch-all of 152-164: for a body
\* that json.loads rejects (71), for the body null, on which the test of 78
\* raises, and for a docker-image target null, on which the test of 102
\* raises (as it does on a number or a boolean). On a string the test of 78
\* looks for the word and finds none.
ValidationStatus(body) ==
    IF body \in {NotJson, JsonNullBody} THEN 500
    ELSE IF body = JsonStringBody THEN 400
    ELSE IF "type" \notin DOMAIN body \/ "target" \notin DOMAIN body THEN 400
    ELSE IF body.type \notin {"docker-image", "web-url"} THEN 400
    ELSE IF body.type = "docker-image" /\ body.target = JsonNull THEN 500
    ELSE 0

---------------------------------------------------------------------------
(* Submission gateway: lambda_handler *)

Response(body, code, id, type, target, status) ==
    [body |-> body, statusCode |-> code, scan_id |-> id,
     type |-> type, target |-> target, status |-> status]

ErrorResponse(body, code) == Response(body, code, 0, "", <<>>, "")

\* scan_jobs(id PK, ...): an INSERT of an id the table holds is rejected
PrimaryKeyViolation(id) == id \in DOMAIN scan_jobs

\* create_scan_record swallowing what it should raise again
create_scan_record_Swallows(scan_id, scan_type, target, dbOk) ==
    IF dbOk /\ ~PrimaryKeyViolation(scan_id)
    THEN <<scan_jobs @@ (scan_id :> [scan_type |-> scan_type,
                                     target |-> target,
                                     status |-> "queued",
                                     started_at |-> 0,
                                     completed_at |-> 0,
                                     error_message |-> NULL]),
           FALSE>>
    ELSE <<scan_jobs, FALSE>>

\* lambda_function.py 34-59. dbOk: the connection, the INSERT and the commit
\* go through. The result is <<table after the call, raised>>: a failure is
\* rolled back and raised again.
create_scan_record(scan_id, scan_type, target, dbOk) ==
    IF dbOk /\ ~PrimaryKeyViolation(scan_id)
    THEN <<scan_jobs @@ (scan_id :> [scan_type |-> scan_type,
                                     target |-> target,
                                     status |-> "queued",
                                     started_at |-> 0,
                                     completed_at |-> 0,
                                     error_message |-> NULL]),
           FALSE>>
    ELSE <<scan_jobs, TRUE>>

\* nobody has deleted the message
NoAck == [by |-> "nobody", stored |-> FALSE, committed |-> FALSE]

\* the message given an id of its own instead of the row's
QueueMessage_OwnId(scan_id, scan_type, target) ==
    [body |-> [scan_id |-> scan_id + 1, type |-> scan_type, target |-> target],
     scan_type |-> scan_type,
     state |-> "visible",
     receives |-> 0,
     ack |-> NoAck]

\* lambda_function.py 113-131: the message the handler sends
QueueMessage(scan_id, scan_type, target) ==
    [body |-> [scan_id |-> scan_id, type |-> scan_type, target |-> target],
     scan_type |-> scan_type,
     state |-> "visible",
     receives |-> 0,
     ack |-> NoAck]

\* a bag with one more copy of e, and with one less
Put(bag, e) == bag (+) SetToBag({e})
Take(bag, e) == bag (-) SetToBag({e})

\* the ids of the rows and of the invocations in progress
KnownIds == DOMAIN scan_jobs \cup {inv.scan_id : inv \in BagToSet(gw)}

\* lambda_function.py 106: uuid4 draws any id. Ids are interchangeable, so
\* of the ids neither a row nor an invocation in progress has, only the
\* least is drawn.
uuid4 ==
    {id \in JobIds : id \in KnownIds \/ \A other \in JobIds \ KnownIds : id <= other}

\* lambda_function.py 66-107: the handler is invoked with a request body,
\* validates it (400, and the 500 of the catch-all, return at once),
\* normalises the target and draws the scan id. Invocations run side by side.
GwInvoke(body) ==
    /\ submitted' = submitted + 1
    /\ IF ValidationStatus(body) # 0
       THEN /\ responses' = Put(responses, ErrorResponse(body, ValidationStatus(body)))
            /\ gw' = gw
       ELSE /\ \E id \in uuid4 :
                 gw' = Put(gw, [pc |-> "create", body |-> body, scan_id |-> id,
                                scan_type |-> body.type,
                                target |-> NormalizeTarget(body.type, body.target)])
            /\ responses' = responses
    /\ UNCHANGED <<scan_jobs, vulnerabilities, bucket, queue, wk, faults>>

\* lambda_function.py 109-110 and 152-164: create_scan_record; what it raises
\* ends the invocation with 500.
GwCreateRecord(inv) ==
    /\ inv.pc = "create"
    /\ \E dbOk \in MayFail :
         LET r == create_scan_record(inv.scan_id, inv.scan_type, inv.target, dbOk)
         IN  /\ Charge(dbOk)
             /\ scan_jobs' = r[1]
             /\ IF r[2]
                THEN /\ responses' = Put(responses, ErrorResponse(inv.body, 500))
                     /\ gw' = Take(gw, inv)
                ELSE /\ responses' = responses
                     /\ gw' = Put(Take(gw, inv), [inv EXCEPT !.pc = "send"])
    /\ UNCHANGED <<vulnerabilities, bucket, queue, submitted, wk>>

\* lambda_function.py 112-164 with a send that raises after the message is on
\* the queue
GwSendMessage_EnqueuesThenFails(inv) ==
    /\ inv.pc = "send"
    /\ \E sqsOk \in MayFail :
         /\ Charge(sqsOk)
         /\ queue' = Append(queue, QueueMessage(inv.scan_id, inv.scan_type, inv.target))
         /\ IF sqsOk
            THEN /\ responses' = responses
                 /\ gw' = Put(Take(gw, inv), [inv EXCEPT !.pc = "reply"])
            ELSE /\ responses' = Put(responses, ErrorResponse(inv.body, 500))
                 /\ gw' = Take(gw, inv)
    /\ UNCHANGED <<scan_jobs, vulnerabilities, bucket, submitted, wk>>

\* lambda_function.py 112-131 and 152-164: send_message puts the message on
\* the queue; a send that raises ends the invocation with 500.
GwSendMessage(inv) ==
    /\ inv.pc = "send"
    /\ \E sqsOk \in MayFail :
         /\ Charge(sqsOk)
         /\ IF sqsOk
            THEN /\ queue' = Append(queue, QueueMessage(inv.scan_id, inv.scan_type, inv.target))
                 /\ responses' = responses
                 /\ gw' = Put(Take(gw, inv), [inv EXCEPT !.pc = "reply"])
            ELSE /\ queue' = queue
                 /\ responses' = Put(responses, ErrorResponse(inv.body, 500))
                 /\ gw' = Take(gw, inv)
    /\ UNCHANGED <<scan_jobs, vulnerabilities, bucket, submitted, wk>>

\* lambda_function.py 133-150: send_message has returned; the handler
\* returns the 202
GwReply(inv) ==
    /\ inv.pc = "reply"
    /\ responses' = Put(responses,
           Response(inv.body, 202, inv.scan_id, inv.scan_type, inv.target, "queued"))
    /\ gw' = Take(gw, inv)
    /\ UNCHANGED <<scan_jobs, vulnerabilities, bucket, queue, submitted, wk, faults>>

---------------------------------------------------------------------------
(* Persistence operations of the worker *)

\* How a call on the database ends: it goes through; it fails and is
\* rolled back; or the connection is lost, and the rollback of the except
\* clause (scanner.py 53, 91) raises in its turn.
DbOutcomes == {"ok", "fail", "lost"}

DbMayEnd == IF faults < MaxFaults THEN DbOutcomes ELSE {"ok"}

\* what the rollback on a lost connection raises, as str(e) gives it
ConnectionLost == "connection already closed"

\* update_scan_status with the error text left out of the UPDATE
update_scan_status_NoErrorText(scan_id, status, error_message, db) ==
    IF db # "ok" \/ scan_id \notin DOMAIN scan_jobs THEN <<scan_jobs, db = "lost">>
    ELSE IF status = "scanning"
    THEN <<[scan_jobs EXCEPT ![scan_id].status = status,
                             ![scan_id].started_at = @ + 1], FALSE>>
    ELSE IF status \in {"completed", "failed"}
    THEN <<[scan_jobs EXCEPT ![scan_id].status = status,
                             ![scan_id].completed_at = @ + 1], FALSE>>
    ELSE <<scan_jobs, FALSE>>

\* scanner.py 30-56. db: how the connection, the UPDATE and the commit end.
\* The result is <<table after the call, raised>>. A failure is printed,
\* rolled back and swallowed; when the rollback raises too, that exception
\* leaves the function. An UPDATE whose WHERE matches no row changes nothing.
update_scan_status(scan_id, status, error_message, db) ==
    IF db # "ok" \/ scan_id \notin DOMAIN scan_jobs THEN <<scan_jobs, db = "lost">>
    ELSE IF status = "scanning"
    THEN <<[scan_jobs EXCEPT ![scan_id].status = status,
                             ![scan_id].started_at = @ + 1], FALSE>>
    ELSE IF status = "completed"
    THEN <<[scan_jobs EXCEPT ![scan_id].status = status,
                             ![scan_id].completed_at = @ + 1], FALSE>>
    ELSE IF status = "failed"
    THEN <<[scan_jobs EXCEPT ![scan_id].status = status,
                             ![scan_id].completed_at = @ + 1,
                             ![scan_id].error_message = error_message], FALSE>>
    ELSE <<scan_jobs, FALSE>>

\* scanner.py 73-82: the row inserted for one vulnerability
VulnerabilityRow(scan_id, vuln) ==
    [scan_job_id |-> scan_id,
     cve_id |-> vuln.VulnerabilityID,
     severity |-> vuln.Severity]

\* vulnerabilities(scan_job_id FK -> scan_jobs.id): an INSERT for a job
\* without a row is rejected
ForeignKeyViolation(scan_id) == scan_id \notin DOMAIN scan_jobs

\* scanner.py 58-94 with the job's earlier rows replaced by the new ones
store_vulnerabilities_Idempotent(scan_id, vulns, db) ==
    IF db = "ok" /\ ~ForeignKeyViolation(scan_id)
    THEN <<SelectSeq(vulnerabilities, LAMBDA row : row.scan_job_id # scan_id)
           \o [i \in 1 .. Len(vulns) |-> VulnerabilityRow(scan_id, vulns[i])],
           FALSE>>
    ELSE <<vulnerabilities, db = "lost">>

\* scanner.py 58-94. The result is <<table after the call, raised>>. A
\* failure is printed, rolls the whole insert back and is swallowed; when
\* the rollback raises too, that exception leaves the function.
store_vulnerabilities(scan_id, vulns, db) ==
    IF db = "ok" /\ ~ForeignKeyViolation(scan_id)
    THEN <<vulnerabilities \o [i \in 1 .. Len(vulns) |-> VulnerabilityRow(scan_id, vulns[i])],
           FALSE>>
    ELSE <<vulnerabilities, db = "lost">>

---------------------------------------------------------------------------
(* Scanner adapter *)

Vuln(id, sev) == [VulnerabilityID |-> id, Severity |-> sev]

\* What trivy prints for an image: decided by the image, the same on every
\* run. A result may carry no Vulnerabilities key, or an empty/null one.
TrivyOutput(image_name) ==
    IF Len(image_name) > 0 /\ image_name[1] = "n"
    THEN [Results |-> << [Target |-> "os", Vulnerabilities |-> <<Vuln("CVE-1", "HIGH")>>],
                         [Target |-> "cfg"],
                         [Target |-> "lib", Vulnerabilities |-> <<Vuln("CVE-2", "LOW")>>] >>]
    ELSE IF Len(image_name) > 0 /\ image_name[1] = ":"
    THEN [Results |-> << [Target |-> "os", Vulnerabilities |-> <<>>] >>]
    ELSE [SchemaVersion |-> 2]

\* scanner.py 113-117
RECURSIVE FlattenResults(_)
FlattenResults(results) ==
    IF results = <<>> THEN <<>>
    ELSE LET result == Head(results)
         IN  (IF "Vulnerabilities" \in DOMAIN result /\ result.Vulnerabilities # <<>>
              THEN result.Vulnerabilities
              ELSE <<>>) \o FlattenResults(Tail(results))

NoOutput == [SchemaVersion |-> 0]

ScanOutcomes == {"ok", "nonzero", "timeout", "badjson"}

\* the characters of a string, put together
RECURSIVE Join(_)
Join(chars) == IF chars = <<>> THEN "" ELSE Head(chars) \o Join(Tail(chars))

\* scanner.py 101-111 and 131-133: what the raised exception prints as. The
\* timeout of subprocess.run names the command it ran.
ScanError(outcome, image_name) ==
    IF outcome = "nonzero" THEN "Trivy scan failed: stderr"
    ELSE IF outcome = "timeout"
    THEN "Command '['trivy', 'image', '--format', 'json', '--quiet', '"
         \o Join(image_name) \o "']' timed out after 600 seconds"
    ELSE "Expecting value: line 1 column 1 (char 0)"

\* scanner.py 96-133. outcome: how the trivy subprocess ends.
scan_docker_image(image_name, outcome) ==
    IF outcome # "ok"
    THEN [raised |-> TRUE, error |-> ScanError(outcome, image_name),
          scan_results |-> NoOutput, vulnerabilities |-> <<>>]
    ELSE LET scan_results == TrivyOutput(image_name)
         IN  [raised |-> FALSE, error |-> "",
              scan_results |-> scan_results,
              vulnerabilities |-> IF "Results" \in DOMAIN scan_results
                                  THEN FlattenResults(scan_results.Results)
                                  ELSE <<>>]

\* scanner.py 155
UnsupportedError(scan_type) == "Unsupported scan type: " \o scan_type

---------------------------------------------------------------------------
(* Scan worker: main and process_message *)

\* receives so far, over all messages
RECURSIVE Deliveries(_)
Deliveries(q) == IF q = <<>> THEN 0 ELSE Head(q).receives + Deliveries(Tail(q))

\* A worker between deliveries. stored and committed record how the calls of
\* the delivery ended (what store_vulnerabilities and update_scan_status
\* print, since they return nothing): the findings are in the table or there
\* were none to insert; the update to completed changed the job's row.
WkIdle == [pc |-> "poll", msg |-> 0, receipt |-> 0,
           raw |-> NoOutput, vulns |-> <<>>, err |-> "",
           stored |-> FALSE, committed |-> FALSE]

Body(w) == queue[wk[w].msg].body

\* process_message 138-141: what parsing the message raises, "" when nothing.
\* A body that is no JSON has the one key garbage.
ParseError(body) ==
    IF "garbage" \in DOMAIN body THEN "Expecting value: line 1 column 1 (char 0)"
    ELSE IF "scan_id" \notin DOMAIN body THEN "'scan_id'"
    ELSE IF "type" \notin DOMAIN body THEN "'type'"
    ELSE IF "target" \notin DOMAIN body THEN "'target'"
    ELSE ""

\* process_message 139: the local scan_id has been assigned
ScanIdBound(body) == "garbage" \notin DOMAIN body /\ "scan_id" \in DOMAIN body

\* main 212-214 with the loop left on an error
main_on_error_Breaks == "stopped"

\* main 212-214: where the loop goes after an error it caught (sleep, then
\* the next iteration)
main_on_error == "poll"

\* process_message 179-182: the handler's except clause is entered with e
Raise(w, e) == [wk EXCEPT ![w].pc = "except", ![w].err = e]

\* main 194-205 and process_message 137-142: receive_message hands the worker
\* one visible message, hidden from the others until its visibility timeout,
\* under a receipt handle of this receive; the worker parses it.
WkReceive(w, m) ==
    /\ wk[w].pc = "poll"
    /\ queue[m].state = "visible"
    /\ Deliveries(queue) < MaxDeliveries
    /\ queue' = [queue EXCEPT ![m].state = "inflight", ![m].receives = @ + 1]
    /\ wk' = [wk EXCEPT ![w] = [WkIdle EXCEPT
                  !.pc = IF ParseError(queue[m].body) = ""
                         THEN "update_scanning" ELSE "except",
                  !.err = ParseError(queue[m].body),
                  !.msg = m,
                  !.receipt = queue[m].receives + 1]]
    /\ UNCHANGED <<scan_jobs, vulnerabilities, bucket, gw, submitted, responses, faults>>

\* main 196-201 and 212-214: receive_message raises; the loop sleeps and
\* goes on
WkReceiveFails(w) ==
    /\ wk[w].pc = "poll"
    /\ FALSE \in MayFail
    /\ Charge(FALSE)
    /\ wk' = [wk EXCEPT ![w].pc = main_on_error]
    /\ UNCHANGED <<scan_jobs, vulnerabilities, bucket, queue, gw, submitted, responses>>

\* main 194-211: the worker process ends where it stands (killed at any
\* point, or interrupted outside the fallback of 181-184 and the loop left);
\* what it held is abandoned
WkCrash(w) ==
    /\ wk[w].pc # "stopped"
    /\ wk' = [wk EXCEPT ![w] = [WkIdle EXCEPT !.pc = "stopped"]]
    /\ UNCHANGED <<scan_jobs, vulnerabilities, bucket, queue, gw, submitted, responses, faults>>

\* process_message 181-184: an interrupt that arrives in the fallback is
\* swallowed by its bare except, whatever update_scan_status had done by
\* then is rolled back, and the worker goes on polling
WkInterruptFallback(w) ==
    /\ wk[w].pc = "except"
    /\ wk' = [wk EXCEPT ![w] = WkIdle]
    /\ UNCHANGED <<scan_jobs, vulnerabilities, bucket, queue, gw, submitted, responses, faults>>

\* the queue: an unacknowledged message's visibility timeout (main 200) ends
VisibilityTimeout(m) ==
    /\ queue[m].state = "inflight"
    /\ queue' = [queue EXCEPT ![m].state = "visible"]
    /\ UNCHANGED <<scan_jobs, vulnerabilities, bucket, gw, submitted, responses, wk, faults>>

\* process_message 150, and 179 for what the call raises
WkUpdateScanning(w) ==
    /\ wk[w].pc = "update_scanning"
    /\ \E db \in DbMayEnd :
         LET r == update_scan_status(Body(w).scan_id, "scanning", NULL, db)
         IN  /\ Charge(db = "ok")
             /\ scan_jobs' = r[1]
             /\ wk' = IF r[2] THEN Raise(w, ConnectionLost)
                      ELSE [wk EXCEPT ![w].pc = "scan"]
    /\ UNCHANGED <<vulnerabilities, bucket, queue, gw, submitted, responses>>

\* process_message 152-155
WkScan(w) ==
    /\ wk[w].pc = "scan"
    /\ IF Body(w).type = "docker-image"
       THEN \E outcome \in ScanOutcomes :
              LET results == scan_docker_image(Body(w).target, outcome)
              IN  wk' = IF results.raised
                        THEN Raise(w, results.error)
                        ELSE [wk EXCEPT ![w].pc = "put_object",
                                        ![w].raw = results.scan_results,
                                        ![w].vulns = results.vulnerabilities]
       ELSE wk' = Raise(w, UnsupportedError(Body(w).type))
    /\ UNCHANGED <<scan_jobs, vulnerabilities, bucket, queue, gw, submitted, responses, faults>>

\* process_message 157-166 with a failed upload swallowed
WkPutObject_Swallows(w) ==
    /\ wk[w].pc = "put_object"
    /\ \E s3Ok \in MayFail :
         /\ Charge(s3Ok)
         /\ bucket' = IF s3Ok
                      THEN [k \in DOMAIN bucket \cup {Body(w).scan_id} |->
                               IF k = Body(w).scan_id THEN wk[w].raw ELSE bucket[k]]
                      ELSE bucket
         /\ wk' = IF wk[w].vulns # <<>>
                  THEN [wk EXCEPT ![w].pc = "store"]
                  ELSE [wk EXCEPT ![w].pc = "update_completed", ![w].stored = TRUE]
    /\ UNCHANGED <<scan_jobs, vulnerabilities, queue, gw, submitted, responses>>

\* process_message 157-166: the upload overwrites the object under the job's
\* key with the parsed output serialised again; then the test whether there
\* is anything to store
WkPutObject(w) ==
    /\ wk[w].pc = "put_object"
    /\ \E s3Ok \in MayFail :
         /\ Charge(s3Ok)
         /\ IF s3Ok
            THEN /\ bucket' = [k \in DOMAIN bucket \cup {Body(w).scan_id} |->
                                  IF k = Body(w).scan_id THEN wk[w].raw ELSE bucket[k]]
                 /\ wk' = IF wk[w].vulns # <<>>
                          THEN [wk EXCEPT ![w].pc = "store"]
                          ELSE [wk EXCEPT ![w].pc = "update_completed", ![w].stored = TRUE]
            ELSE /\ bucket' = bucket
                 /\ wk' = Raise(w, "S3 put_object failed")
    /\ UNCHANGED <<scan_jobs, vulnerabilities, queue, gw, submitted, responses>>

\* process_message 167, and 179 for what the call raises
WkStoreVulnerabilities(w) ==
    /\ wk[w].pc = "store"
    /\ \E db \in DbMayEnd :
         LET r == store_vulnerabilities(Body(w).scan_id, wk[w].vulns, db)
         IN  /\ Charge(db = "ok")
             /\ vulnerabilities' = r[1]
             /\ wk' = IF r[2] THEN Raise(w, ConnectionLost)
                      ELSE [wk EXCEPT ![w].pc = "update_completed",
                                      ![w].stored = db = "ok"
                                          /\ ~ForeignKeyViolation(Body(w).scan_id)]
    /\ UNCHANGED <<scan_jobs, bucket, queue, gw, submitted, responses>>

\* process_message 169, and 179 for what the call raises
WkUpdateCompleted(w) ==
    /\ wk[w].pc = "update_completed"
    /\ \E db \in DbMayEnd :
         LET r == update_scan_status(Body(w).scan_id, "completed", NULL, db)
         IN  /\ Charge(db = "ok")
             /\ scan_jobs' = r[1]
             /\ wk' = IF r[2] THEN Raise(w, ConnectionLost)
                      ELSE [wk EXCEPT ![w].pc = "delete",
                                      ![w].committed = db = "ok"
                                          /\ Body(w).scan_id \in DOMAIN scan_jobs]
    /\ UNCHANGED <<vulnerabilities, bucket, queue, gw, submitted, responses>>

\* The queue's delete_message: the handle of the message's latest receive
\* deletes it; an older handle may or may not (gone: what the queue chose
\* for an older handle). Deleting a deleted message changes nothing.
DeleteByHandle(m, receipt, by, gone) ==
    IF queue[m].state # "deleted" /\ (receipt = queue[m].receives \/ gone)
    THEN [queue EXCEPT ![m].state = "deleted", ![m].ack = by]
    ELSE queue

\* process_message 171-177: acknowledge, and back to the loop of main
WkDeleteMessage(w) ==
    /\ wk[w].pc = "delete"
    /\ \E sqsOk \in MayFail, gone \in BOOLEAN :
         /\ Charge(sqsOk)
         /\ IF sqsOk
            THEN /\ queue' = DeleteByHandle(wk[w].msg, wk[w].receipt,
                                 [by |-> w, stored |-> wk[w].stored,
                                  committed |-> wk[w].committed], gone)
                 /\ wk' = [wk EXCEPT ![w] = WkIdle]
            ELSE /\ queue' = queue
                 /\ wk' = Raise(w, "SQS delete_message failed")
    /\ UNCHANGED <<scan_jobs, vulnerabilities, bucket, gw, submitted, responses>>

\* process_message 179-184 with the message deleted by the except clause
WkUpdateFailed_Acks(w) ==
    /\ wk[w].pc = "except"
    /\ queue' = [queue EXCEPT ![wk[w].msg].state = "deleted"]
    /\ wk' = [wk EXCEPT ![w] = WkIdle]
    /\ UNCHANGED <<scan_jobs, vulnerabilities, bucket, gw, submitted, responses, faults>>

\* process_message 179-184: the except clause marks the job failed, swallows
\* whatever that raises, and returns to the loop of main. With scan_id not
\* assigned the call itself raises (NameError), which is swallowed too.
WkUpdateFailed(w) ==
    /\ wk[w].pc = "except"
    /\ IF ScanIdBound(Body(w))
       THEN \E db \in DbMayEnd :
              /\ Charge(db = "ok")
              /\ scan_jobs' = update_scan_status(Body(w).scan_id, "failed", wk[w].err, db)[1]
       ELSE UNCHANGED <<scan_jobs, faults>>
    /\ wk' = [wk EXCEPT ![w] = WkIdle]
    /\ UNCHANGED <<vulnerabilities, bucket, queue, gw, submitted, responses>>

---------------------------------------------------------------------------
(* Specifications *)

Init ==
    /\ scan_jobs = <<>>
    /\ vulnerabilities = <<>>
    /\ bucket = <<>>
    /\ queue = <<>>
    /\ gw = EmptyBag
    /\ submitted = 0
    /\ responses = EmptyBag
    /\ wk = [w \in Workers |-> WkIdle]
    /\ faults = 0

\* the requests the pipeline is driven with
PipelineRequests ==
    {[type |-> "docker-image", target |-> <<"n">>],
     [type |-> "docker-image", target |-> <<":">>],
     [type |-> "web-url", target |-> <<"n">>]}

\* at most limit invocations of the gateway, with requests of the given set
Invocations(limit, requests) ==
    /\ submitted < limit
    /\ \E body \in requests : GwInvoke(body)

WorkerNext(w) ==
    \/ \E m \in DOMAIN queue : WkReceive(w, m)
    \/ WkUpdateScanning(w)
    \/ WkScan(w)
    \/ WkPutObject(w)
    \/ WkStoreVulnerabilities(w)
    \/ WkUpdateCompleted(w)
    \/ WkDeleteMessage(w)
    \/ WkUpdateFailed(w)

Next ==
    \/ Invocations(MaxJobs, PipelineRequests)
    \/ \E inv \in BagToSet(gw) : GwCreateRecord(inv)
    \/ \E inv \in BagToSet(gw) : GwSendMessage(inv)
    \/ \E inv \in BagToSet(gw) : GwReply(inv)
    \/ \E w \in Workers : WorkerNext(w)
    \/ \E m \in DOMAIN queue : VisibilityTimeout(m)

Spec == Init /\ [][Next]_vars

\* the gateway alone, over every request
GwNext ==
    \/ Invocations(MaxSubmits, Requests)
    \/ \E inv \in BagToSet(gw) : GwCreateRecord(inv)
    \/ \E inv \in BagToSet(gw) : GwSendMessage(inv)
    \/ \E inv \in BagToSet(gw) : GwReply(inv)

SpecGateway == Init /\ [][GwNext]_vars

\* the pipeline with worker processes that may end at any point. No call to
\* the database, S3 or SQS fails here: a delivery ends early by a scan error
\* or by the end of its worker.
InitCrash ==
    /\ scan_jobs = <<>>
    /\ vulnerabilities = <<>>
    /\ bucket = <<>>
    /\ queue = <<>>
    /\ gw = EmptyBag
    /\ submitted = 0
    /\ responses = EmptyBag
    /\ wk = [w \in Workers |-> WkIdle]
    /\ faults = MaxFaults

\* the pipeline driven with requests for one image, whose scan may fail
CrashRequests == {[type |-> "docker-image", target |-> <<"n">>]}

NextCrash ==
    \/ Invocations(MaxJobs, CrashRequests)
    \/ \E inv \in BagToSet(gw) : GwCreateRecord(inv)
    \/ \E inv \in BagToSet(gw) : GwSendMessage(inv)
    \/ \E inv \in BagToSet(gw) : GwReply(inv)
    \/ \E w \in Workers : WorkerNext(w)
    \/ \E m \in DOMAIN queue : VisibilityTimeout(m)
    \/ \E w \in Workers : WkCrash(w)
    \/ \E w \in Workers : WkInterruptFallback(w)

SpecCrash == InitCrash /\ [][NextCrash]_vars

\* the pipeline as the gateway leaves it when MaxJobs requests have been
\* accepted and answered: a queued row and a visible message for each
InitDelivery ==
    \E reqs \in [1 .. MaxJobs -> PipelineRequests] :
        LET target(id) == NormalizeTarget(reqs[id].type, reqs[id].target)
        IN  /\ scan_jobs = [id \in 1 .. MaxJobs |->
                              [scan_type |-> reqs[id].type,
                               target |-> target(id),
                               status |-> "queued",
                               started_at |-> 0,
                               completed_at |-> 0,
                               error_message |-> NULL]]
            /\ queue = [id \in 1 .. MaxJobs |->
                          QueueMessage(id, reqs[id].type, target(id))]
            /\ responses = SetToBag({Response(reqs[id], 202, id, reqs[id].type,
                                              target(id), "queued") : id \in 1 .. MaxJobs})
            /\ vulnerabilities = <<>>
            /\ bucket = <<>>
            /\ gw = EmptyBag
            /\ submitted = MaxJobs
            /\ wk = [w \in Workers |-> WkIdle]
            /\ faults = 0

\* the workers on the queue of accepted requests
NextDelivery ==
    \/ \E w \in Workers : WorkerNext(w)
    \/ \E m \in DOMAIN queue : VisibilityTimeout(m)

SpecDelivery == InitDelivery /\ [][NextDelivery]_vars

\* message bodies the gateway never writes: no JSON, no scan_id, no type
\* (its scan_id has a row), and a whole one for a job that has no row
ForeignBodies ==
    {[garbage |-> TRUE],
     [type |-> "docker-image", target |-> <<"n">>],
     [scan_id |-> 1, target |-> <<"n">>],
     [scan_id |-> 2, type |-> "docker-image", target |-> <<"n">> \o LatestSuffix]}

\* a producer other than the gateway puts a message on the queue; the worker
\* takes whatever the queue holds (main 196-205, process_message 137-142)
ForeignSend(body) ==
    /\ Len(queue) < MaxForeign
    /\ queue' = Append(queue, [body |-> body, scan_type |-> "docker-image",
                               state |-> "visible", receives |-> 0, ack |-> NoAck])
    /\ UNCHANGED <<scan_jobs, vulnerabilities, bucket, gw, submitted, responses, wk, faults>>

\* the table holds the queued row of a submission that ended between its
\* INSERT and its send_message; the queue holds nothing of the gateway
InitForeign ==
    /\ scan_jobs = (1 :> [scan_type |-> "docker-image",
                          target |-> <<"n">> \o LatestSuffix,
                          status |-> "queued",
                          started_at |-> 0,
                          completed_at |-> 0,
                          error_message |-> NULL])
    /\ vulnerabilities = <<>>
    /\ bucket = <<>>
    /\ queue = <<>>
    /\ gw = EmptyBag
    /\ submitted = 0
    /\ responses = EmptyBag
    /\ wk = [w \in Workers |-> WkIdle]
    /\ faults = 0

\* the workers on a queue of such messages: a delivery of one that does not
\* parse goes from the receive to the except clause
NextForeign ==
    \/ \E body \in ForeignBodies : ForeignSend(body)
    \/ \E w \in Workers : WorkerNext(w)
    \/ \E w \in Workers : WkReceiveFails(w)
    \/ \E m \in DOMAIN queue : VisibilityTimeout(m)

SpecForeign == InitForeign /\ [][NextForeign]_vars

---------------------------------------------------------------------------
(* Properties of the worker, under Spec and SpecDelivery *)

StatusRank(status) ==
    CASE status = "queued" -> 0
      [] status = "scanning" -> 1
      [] OTHER -> 2

Terminal(status) == status \in {"completed", "failed"}

\* what a failed scan of the target raises: nonzero exit, timeout,
\* unparsable output; for another type, unsupported scan type
ScanErrors(scan_type, target) ==
    IF scan_type = "docker-image"
    THEN {ScanError(o, target) : o \in ScanOutcomes \ {"ok"}}
    ELSE {UnsupportedError(scan_type)}

\* worker w leaves the except clause of a delivery whose scan raised
ScanFailureHandled(w) ==
    /\ wk[w].pc = "except"
    /\ wk[w].err \in ScanErrors(Body(w).type, Body(w).target)
    /\ wk'[w] # wk[w]

FindingCount(id) ==
    Cardinality({i \in DOMAIN vulnerabilities : vulnerabilities[i].scan_job_id = id})

\* C1: a job's status only moves forward along queued -> scanning ->
\* completed | failed: it never regresses, and a completed or failed job's
\* status never changes again.
C1_StatusMonotonic ==
    [][\A id \in DOMAIN scan_jobs :
          /\ StatusRank(scan_jobs'[id].status) >= StatusRank(scan_jobs[id].status)
          /\ Terminal(scan_jobs[id].status) =>
                 scan_jobs'[id].status = scan_jobs[id].status]_vars

\* C2: a message is deleted only by a delivery in which the finding insertion
\* and the status commit to completed succeeded (the upload always has, when
\* the delete is reached).
C2_AckOnlyAfterPersistence ==
    \A m \in DOMAIN queue :
        queue[m].state = "deleted" =>
            /\ queue[m].body.scan_id \in DOMAIN bucket
            /\ queue[m].ack.stored
            /\ queue[m].ack.committed

\* C3: a completed job has its object in the bucket and as many rows in
\* vulnerabilities as the scanner's flattened list for its target is long.
C3_CompletedJobIsWhole ==
    \A id \in DOMAIN scan_jobs :
        scan_jobs[id].status = "completed" =>
            /\ id \in DOMAIN bucket
            /\ FindingCount(id) =
                   Len(scan_docker_image(scan_jobs[id].target, "ok").vulnerabilities)

\* C4 as claimed: a delivery whose scan raised ends with the job failed and
\* its error_message non-empty, the worker back in its loop.
C4_ScanFailureMarksFailed ==
    [][\A w \in Workers :
          ScanFailureHandled(w) =>
              LET id == Body(w).scan_id
              IN  /\ wk'[w].pc = "poll"
                  /\ id \in DOMAIN scan_jobs'
                  /\ scan_jobs'[id].status = "failed"
                  /\ scan_jobs'[id].error_message \notin {NULL, ""}]_vars

\* C4 amended: a delivery whose scan raised ends with the worker back in its
\* loop; if the update to failed goes through, the job is failed and its
\* error_message is the non-empty text of the scan error; if it does not, the
\* table is as it was.
C4_ScanFailureBestEffort ==
    [][\A w \in Workers :
          ScanFailureHandled(w) =>
              LET id == Body(w).scan_id
              IN  /\ wk'[w].pc = "poll"
                  /\ IF faults' = faults
                     THEN /\ id \in DOMAIN scan_jobs'
                          /\ scan_jobs'[id].status = "failed"
                          /\ scan_jobs'[id].error_message = wk[w].err
                          /\ wk[w].err \notin {NULL, ""}
                     ELSE scan_jobs' = scan_jobs]_vars

\* a job stands failed with the text of a scan error and no worker is at work
C4_Witness ==
    /\ \E id \in DOMAIN scan_jobs :
          /\ scan_jobs[id].status = "failed"
          /\ scan_jobs[id].error_message
                 \in ScanErrors(scan_jobs[id].scan_type, scan_jobs[id].target)
    /\ \A w \in Workers : wk[w].pc = "poll"

\* C5: a delivery whose scan raised deletes the message, and the message of a
\* job marked failed by a scan error is not received again.
C5_FailedScanIsAcknowledged ==
    [][/\ \A w \in Workers :
             ScanFailureHandled(w) => queue'[wk[w].msg].state = "deleted"
       /\ \A m \in DOMAIN queue :
             (/\ queue[m].body.scan_id \in DOMAIN scan_jobs
              /\ scan_jobs[queue[m].body.scan_id].status = "failed"
              /\ scan_jobs[queue[m].body.scan_id].error_message
                     \in ScanErrors(queue[m].body.type, queue[m].body.target))
             => queue'[m].receives = queue[m].receives]_vars

---------------------------------------------------------------------------
(* Properties of the gateway, under SpecGateway *)

\* a request that misses type or target, or whose type is not a scan type
\* (a body that is no JSON object has neither type nor target)
InvalidRequest(body) ==
    \/ ~IsObject(body)
    \/ "type" \notin DOMAIN body
    \/ "target" \notin DOMAIN body
    \/ body.type \notin {"docker-image", "web-url"}

\* the request is as the interface has it: its target is a string (a web-url
\* target, never looked at, is taken as it is)
TargetInContract(body) == body.type = "web-url" \/ IsString(body.target)

\* the target a request is to be scanned under
ExpectedTarget(body) ==
    IF /\ body.type = "docker-image"
       /\ \A i \in 1 .. Len(body.target) : body.target[i] \notin {":", "@"}
    THEN body.target \o LatestSuffix
    ELSE body.target

\* the responses returned so far, and how many of them are in a set
Returned == BagToSet(responses)
Copies(bag, S) == BagCardinality([e \in S \cap DOMAIN bag |-> bag[e]])

Accepted == {r \in Returned : r.statusCode = 202}

\* what this step returns, and the invocation it starts
NewResponses ==
    {r \in BagToSet(responses') : CopiesIn(r, responses') > CopiesIn(r, responses)}
NewInvocations ==
    {inv \in BagToSet(gw') : CopiesIn(inv, gw') > CopiesIn(inv, gw)}

MessagesOf(id) == {m \in DOMAIN queue : queue[m].body.scan_id = id}

\* the body of the request the gateway was invoked with in this step
InvokedBody ==
    IF NewResponses # {} THEN (CHOOSE r \in NewResponses : TRUE).body
    ELSE (CHOOSE inv \in NewInvocations : TRUE).body

\* C6: an invocation with an invalid request returns 400 at once and leaves
\* scan_jobs and the queue as they were.
C6_InvalidRequestRejected ==
    [][(submitted' # submitted /\ InvalidRequest(InvokedBody)) =>
          /\ gw' = gw
          /\ responses' = Put(responses, ErrorResponse(InvokedBody, 400))
          /\ scan_jobs' = scan_jobs
          /\ queue' = queue]_vars

\* C7: every message in the queue carries the id of a row of scan_jobs.
C7_MessageHasRow ==
    \A m \in DOMAIN queue : queue[m].body.scan_id \in DOMAIN scan_jobs

\* a message is in the queue after an earlier invocation failed with 500
C7_Witness ==
    /\ queue # <<>>
    /\ \E r \in Returned : r.statusCode = 500

\* C8: the target stored, enqueued and returned for an accepted request is
\* the request's with ":latest" appended exactly when the type is
\* docker-image and the target, a string, has neither ":" nor "@"; the same
\* holds of the target of every invocation in progress, of the row it has
\* written and of the message it has sent.
C8_TargetNormalized ==
    /\ \A r \in Accepted :
          TargetInContract(r.body) =>
              /\ r.target = ExpectedTarget(r.body)
              /\ scan_jobs[r.scan_id].target = ExpectedTarget(r.body)
              /\ \A m \in MessagesOf(r.scan_id) :
                     queue[m].body.target = ExpectedTarget(r.body)
    /\ \A inv \in BagToSet(gw) :
          TargetInContract(inv.body) =>
              /\ inv.target = ExpectedTarget(inv.body)
              /\ inv.pc \in {"send", "reply"} =>
                     scan_jobs[inv.scan_id].target = ExpectedTarget(inv.body)
              /\ inv.pc = "reply" =>
                     \A m \in MessagesOf(inv.scan_id) :
                         queue[m].body.target = ExpectedTarget(inv.body)

\* accepted: a docker-image request whose target was rewritten, and one whose
\* target was left as given
C8_Witness ==
    /\ \E r \in Accepted :
          /\ r.body.type = "docker-image"
          /\ r.target = r.body.target \o LatestSuffix
    /\ \E r \in Accepted :
          /\ r.body.type = "docker-image"
          /\ r.target = r.body.target

\* a valid request: type and target are there, the type is a scan type and
\* the target is a string, as the interface has it
ValidRequest(body) == ~InvalidRequest(body) /\ IsString(body.target)

\* the invocation makes its last step at this position
Ended(inv) == CopiesIn(inv, gw') < CopiesIn(inv, gw)

\* the call the invocation makes in this step, the row write or the enqueue,
\* raises: it fails, or the row's id is one the table holds
CallRaises(inv) ==
    \/ inv.pc \in {"create", "send"} /\ faults' # faults
    \/ inv.pc = "create" /\ inv.scan_id \in DOMAIN scan_jobs

\* C9 as claimed: every valid request is answered 202, with a job id no other
\* call returned.
C9_ValidRequestAccepted ==
    \A r \in Returned :
        ValidRequest(r.body) =>
            /\ r.statusCode = 202
            /\ CopiesIn(r, responses) = 1
            /\ \A other \in Returned \ {r} : other.scan_id # r.scan_id

\* C9 amended: a valid request passes validation; the step of its invocation
\* in which the row write or the enqueue raises returns 500 and ends it; a
\* step in which the call does not raise returns nothing and takes it on,
\* and its last returns 202 with its job id. So a valid request is answered
\* 202 or 500, and no two 202 answers carry the same job id.
C9_AcceptedIdsDistinct ==
    /\ [][(submitted' # submitted /\ ValidRequest(InvokedBody)) =>
             /\ NewResponses = {}
             /\ \E inv \in NewInvocations : inv.pc = "create"]_vars
    /\ [][\A inv \in BagToSet(gw) :
             (Ended(inv) /\ ValidRequest(inv.body)) =>
                 IF CallRaises(inv)
                 THEN /\ NewInvocations = {}
                      /\ \E r \in NewResponses :
                            /\ NewResponses = {r}
                            /\ r.statusCode = 500
                            /\ r.body = inv.body
                 ELSE IF inv.pc = "reply"
                 THEN /\ NewInvocations = {}
                      /\ \E r \in NewResponses :
                            /\ NewResponses = {r}
                            /\ r.statusCode = 202
                            /\ r.body = inv.body
                            /\ r.scan_id = inv.scan_id
                 ELSE /\ NewResponses = {}
                      /\ NewInvocations =
                            {[inv EXCEPT !.pc = IF inv.pc = "create"
                                                THEN "send" ELSE "reply"]}]_vars
    /\ [](/\ \A r \in Returned :
                 ValidRequest(r.body) => r.statusCode \in {202, 500}
          /\ \A r \in Accepted :
                 /\ CopiesIn(r, responses) = 1
                 /\ \A other \in Accepted \ {r} : other.scan_id # r.scan_id)

\* of two valid requests one has been accepted and the other, whose
\* enqueue raised after its row was written, answered 500
C9_Witness ==
    /\ \E r \in Accepted : ValidRequest(r.body)
    /\ \E r \in Returned : ValidRequest(r.body) /\ r.statusCode = 500
    /\ Cardinality(DOMAIN scan_jobs) = 2

\* C10: an accepted request has its row, of status queued, and exactly one
\* message, and row, message and response agree on job id, scan type and
\* target.
C10_AcceptedHasRowAndMessage ==
    \A r \in Accepted :
        /\ r.status = "queued"
        /\ r.scan_id \in DOMAIN scan_jobs
        /\ scan_jobs[r.scan_id].status = "queued"
        /\ scan_jobs[r.scan_id].scan_type = r.type
        /\ scan_jobs[r.scan_id].target = r.target
        /\ Cardinality(MessagesOf(r.scan_id)) = 1
        /\ \A m \in MessagesOf(r.scan_id) :
               /\ queue[m].body.type = r.type
               /\ queue[m].body.target = r.target
               /\ queue[m].scan_type = r.type

\* a request has been accepted while another row, of a request that failed
\* at the enqueue, is in the table
C10_Witness ==
    /\ Accepted # {}
    /\ Cardinality(DOMAIN scan_jobs) > Cardinality(Accepted)
    /\ gw = EmptyBag


---------------------------------------------------------------------------
(* Properties of redelivery and of the worker loop *)

\* worker w is between the receive of a message and the end of its handling
Processing(w) == wk[w].pc \notin {"poll", "stopped"}

\* C11: a delivery that ends by a failure (through the except clause) or by
\* the worker's crash leaves the queue as it was, the message not deleted by
\* it; and every message in flight can have its visibility timeout end, after
\* which a polling worker can receive it again.
C11_FailedDeliveryNotDeleted ==
    /\ [][\A w \in Workers :
            (/\ Processing(w)
             /\ wk'[w].pc \in {"poll", "stopped"}
             /\ ~(wk[w].pc = "delete" /\ wk'[w].pc = "poll"))
            => queue' = queue]_vars
    /\ [](\A m \in DOMAIN queue :
            /\ queue[m].state = "inflight" => ENABLED VisibilityTimeout(m)
            /\ (/\ queue[m].state = "visible"
                /\ Deliveries(queue) < MaxDeliveries
                /\ \E w \in Workers : wk[w].pc = "poll")
               => ENABLED (\E w \in Workers : WkReceive(w, m)))

\* a job was marked failed by a delivery that did not delete its message, and
\* the message has been received a second time
C11_Witness ==
    \E w \in Workers :
        /\ wk[w].pc = "update_scanning"
        /\ wk[w].receipt = 2
        /\ queue[wk[w].msg].ack = NoAck
        /\ scan_jobs[Body(w).scan_id].status = "failed"

\* C12: no error ends the worker loop. A worker in the except clause of
\* process_message, whatever the fallback update does, is next back at the
\* poll with nothing held, and no worker's loop is ever left: not after an
\* error of the handler, not after an error of receive_message.
C12_ErrorsKeepLoop ==
    /\ [][\A w \in Workers :
            (wk[w].pc = "except" /\ wk'[w] # wk[w]) => wk'[w] = WkIdle]_vars
    /\ [](\A w \in Workers :
            /\ wk[w].pc # "stopped"
            /\ wk[w].pc = "except" => ENABLED WkUpdateFailed(w))

\* receive_message has failed (the only call made so far that can), a message
\* that is no JSON has been handled, its fallback raising for the unassigned
\* scan_id, and both workers are polling
C12_Witness ==
    /\ submitted = 0
    /\ faults = 1
    /\ \A w \in Workers : wk[w].pc = "poll"
    /\ \E m \in DOMAIN queue :
           /\ ~ScanIdBound(queue[m].body)
           /\ queue[m].receives >= 1

\* the rows of job id in a findings table
FindingsOf(table, id) == SelectSeq(table, LAMBDA row : row.scan_job_id = id)

\* the scanner's full finding list for the image of the job worker w handles
FullFindingList(w) ==
    [i \in 1 .. Len(FlattenResults(TrivyOutput(Body(w).target).Results)) |->
        VulnerabilityRow(Body(w).scan_id,
                         FlattenResults(TrivyOutput(Body(w).target).Results)[i])]

\* C13: finding persistence is not idempotent. Every successful store of a
\* delivery appends the scanner's full finding list to the rows the job
\* already has, whatever they are, so a second successful processing of the
\* same message doubles the job's rows.
C13_StoreAppendsFullList ==
    [][\A w \in Workers :
         (/\ wk[w].pc = "store"
          /\ wk'[w].pc = "update_completed"
          /\ wk'[w].stored)
         => /\ FullFindingList(w) # <<>>
            /\ FindingsOf(vulnerabilities', Body(w).scan_id)
                 = FindingsOf(vulnerabilities, Body(w).scan_id) \o FullFindingList(w)]_vars

\* a message has been processed successfully twice and its job has every
\* finding of the scanner's list twice
C13_Witness ==
    \E w \in Workers :
        /\ wk[w].pc = "update_completed"
        /\ wk[w].stored
        /\ wk[w].receipt = 2
        /\ FullFindingList(w) # <<>>
        /\ FindingsOf(vulnerabilities, Body(w).scan_id)
             = FullFindingList(w) \o FullFindingList(w)

---------------------------------------------------------------------------
(* Properties of the gateway's failures, under SpecGateway *)

InternalErrors == {r \in Returned : r.statusCode = 500}

\* C14: the step that ends an invocation with 500 puts nothing on the queue,
\* and the invocation has put nothing there before: a request whose row was
\* inserted has no message until its send succeeds, and after that it ends
\* with 202. So the queue holds one message for each accepted request and
\* one for each invocation about to return its 202, and no other.
C14_InternalErrorEnqueuesNothing ==
    /\ [][(\E r \in NewResponses : r.statusCode = 500) => queue' = queue]_vars
    /\ [](/\ \A inv \in BagToSet(gw) :
                 inv.pc = "send" => MessagesOf(inv.scan_id) = {}
          /\ Len(queue) = Copies(responses, Accepted)
                 + Copies(gw, {inv \in BagToSet(gw) : inv.pc = "reply"})
          /\ \A m \in DOMAIN queue :
                 \/ \E r \in Accepted : r.scan_id = queue[m].body.scan_id
                 \/ \E inv \in BagToSet(gw) :
                        inv.pc = "reply" /\ inv.scan_id = queue[m].body.scan_id)

\* two submissions have ended with 500 and nothing is on the queue: the one
\* whose send failed left its queued row behind, the other, whose insert was
\* rejected, left none
C14_Witness ==
    /\ Copies(responses, InternalErrors) = 2
    /\ \A r \in InternalErrors : ValidationStatus(r.body) = 0
    /\ Cardinality(DOMAIN scan_jobs) = 1
    /\ \A id \in DOMAIN scan_jobs : scan_jobs[id].status = "queued"
    /\ queue = <<>>

---------------------------------------------------------------------------
(* Properties of the job row under redelivery *)

\* C15: for every job, started_at is written at most once and completed_at
\* at most once, redeliveries included.
C15_TimestampsWrittenOnce ==
    \A id \in DOMAIN scan_jobs :
        /\ scan_jobs[id].started_at <= 1
        /\ scan_jobs[id].completed_at <= 1

\* the call of update_scan_status worker w makes at its position
UpdateCall(w) ==
    CASE wk[w].pc = "update_scanning" -> [status |-> "scanning", error_message |-> NULL]
      [] wk[w].pc = "update_completed" -> [status |-> "completed", error_message |-> NULL]
      [] wk[w].pc = "except" -> [status |-> "failed", error_message |-> wk[w].err]

\* worker w makes a call of update_scan_status that the database carries out
CommittedUpdate(w) ==
    /\ wk[w].pc \in {"update_scanning", "update_completed", "except"}
    /\ ScanIdBound(Body(w))
    /\ wk'[w] # wk[w]
    /\ faults' = faults

\* C16: update_scan_status is idempotent on repeat. A call for a row that the
\* same call (same status, same error text) wrote last leaves the row as it
\* is, and a call for a job id without a row changes nothing.
C16_RepeatedUpdateIsNoOp ==
    [][\A w \in Workers :
         CommittedUpdate(w) =>
            LET id == Body(w).scan_id
            IN  IF id \notin DOMAIN scan_jobs
                THEN scan_jobs' = scan_jobs
                ELSE (/\ scan_jobs[id].status = UpdateCall(w).status
                      /\ UpdateCall(w).status = "failed"
                            => scan_jobs[id].error_message = UpdateCall(w).error_message)
                     => scan_jobs'[id] = scan_jobs[id]]_vars

\* C17: a docker-image job whose message was enqueued ends completed with its
\* message deleted. Stated on the state the pipeline comes to rest in: once
\* the message is deleted and no worker is handling it any more, nothing
\* touches the job again, so it must be completed by then.
C17_DeletedJobCompleted ==
    \A m \in DOMAIN queue :
        (/\ queue[m].state = "deleted"
         /\ queue[m].body.type = "docker-image"
         /\ \A w \in Workers : ~(Processing(w) /\ wk[w].msg = m))
        => scan_jobs[queue[m].body.scan_id].status = "completed"

\* C18: whenever a worker invokes the external scanner for a job that has a
\* row, the row's status is scanning and its started_at is set.
C18_ScanningWhenScannerRuns ==
    [][\A w \in Workers :
         (/\ wk[w].pc = "scan"
          /\ wk'[w] # wk[w]
          /\ Body(w).type = "docker-image"
          /\ Body(w).scan_id \in DOMAIN scan_jobs)
         => /\ scan_jobs[Body(w).scan_id].status = "scanning"
            /\ scan_jobs[Body(w).scan_id].started_at >= 1]_vars

---------------------------------------------------------------------------
(* Properties of messages that do not parse, and of the result store *)

\* C19: a message whose parsing fails before the job id is extracted takes
\* its worker to the except clause only, and the step that handles it there
\* changes no ScanJob row, deletes nothing from the queue, stores nothing and
\* returns the worker to its loop. Such a message is never deleted.
C19_UnparsedMessageLeftAlone ==
    /\ [][\A w \in Workers :
            (/\ Processing(w)
             /\ ~ScanIdBound(Body(w))
             /\ wk'[w] # wk[w])
            => /\ scan_jobs' = scan_jobs
               /\ queue' = queue
               /\ vulnerabilities' = vulnerabilities
               /\ bucket' = bucket
               /\ wk'[w] = WkIdle]_vars
    /\ [](/\ \A w \in Workers :
                 (Processing(w) /\ ~ScanIdBound(Body(w))) => wk[w].pc = "except"
          /\ \A m \in DOMAIN queue :
                 ~ScanIdBound(queue[m].body) => queue[m].state # "deleted")

\* a message without a job id has been received and handled, the workers are
\* back at the poll, the message is still on the queue and the job row that
\* exists is as the gateway wrote it
C19_Witness ==
    /\ \A w \in Workers : wk[w].pc = "poll"
    /\ \E m \in DOMAIN queue :
           /\ ~ScanIdBound(queue[m].body)
           /\ queue[m].receives = MaxDeliveries
           /\ queue[m].state # "deleted"
    /\ \E id \in DOMAIN scan_jobs : scan_jobs[id].status = "queued"

\* C20: if a job has a Finding row, or its message has been deleted by a
\* worker, the result store holds the object of the job.
C20_ObjectBeforeFindingsAndAck ==
    \A id \in JobIds :
        (\/ FindingCount(id) > 0
         \/ \E m \in MessagesOf(id) : queue[m].state = "deleted")
        => id \in DOMAIN bucket

\* a job has Finding rows, its message is deleted and its object is stored
C20_Witness ==
    \E id \in DOMAIN bucket :
        /\ FindingCount(id) > 0
        /\ \E m \in MessagesOf(id) : queue[m].state = "deleted"

====
